---------------------------- MODULE Spec2Model ----------------------------
(***************************************************************************)
(* Model of exactas-cal2org.py: the scraper that turns the academic        *)
(* calendar page into an Org-mode outline.  Text is modelled as TLA+       *)
(* strings handled character by character (Len, SubSeq, \o), so that the   *)
(* regular expressions, the splits and the affix/casing conversions are    *)
(* computed as the program computes them.                                  *)
(***************************************************************************)
EXTENDS Naturals, Sequences, FiniteSets, TLC

VARIABLES
    pc,            \* position of the run (which statement of main / of the loops is next)
    cfg,           \* what get_events_from_yaml_file returned
    hdr,           \* index of the current item of cal_headers.items()
    suffix,        \* extra_suffix_for_multiple_exam_dates
    line,          \* loop variable `line` of the current section
    doc,           \* the lines of section_text consumed so far, one sequence per section
    out,           \* lines written to standard output
    err,           \* lines written to standard error
    exitCode,      \* exit status of the process, meaningful once pc = "done"
    hol,           \* locals of create_org_contents_from_holidays_header
    week,          \* how many calls of add_entries_for_science_week were made
    tagged,        \* how many of the science weeks looked up so far are on the page
    section_text,  \* argument of a direct call of get_date_or_timeframe
    ret            \* what that call returned

vars == <<pc, cfg, hdr, suffix, line, doc, out, err, exitCode, hol, week, tagged,
          section_text, ret>>

\* the variables of the holiday table, of the science weeks and of a direct call
otherVars == <<hol, week, tagged, section_text, ret>>

----------------------------------------------------------------------------
(* Characters and elementary string operations *)

LowerAlpha == "abcdefghijklmnopqrstuvwxyz"
UpperAlpha == "ABCDEFGHIJKLMNOPQRSTUVWXYZ"
DigitChars == "0123456789"

Ch(s, i) == SubSeq(s, i, i)

CharsOf(s) == {Ch(s, i) : i \in 1..Len(s)}

LowerSet == CharsOf(LowerAlpha)
UpperSet == CharsOf(UpperAlpha)
DigitSet == CharsOf(DigitChars)

\* the class \d of the re module
IsDigit(c) == c \in DigitSet

\* the class \w of the re module: letters, digits and the underscore
WordCharSet == LowerSet \cup UpperSet \cup DigitSet \cup {"_"}
IsWordChar(c) == c \in WordCharSet

IsSpace(c) == c = " "

StartsAt(s, i, lit) ==
    /\ i >= 1
    /\ i + Len(lit) - 1 <= Len(s)
    /\ SubSeq(s, i, i + Len(lit) - 1) = lit

\* str.startswith / str.endswith / the `in` operator on strings
StartsWith(s, lit) == StartsAt(s, 1, lit)
EndsWith(s, lit) == Len(lit) <= Len(s) /\ StartsAt(s, Len(s) - Len(lit) + 1, lit)
Contains(s, lit) == \E i \in 1..Len(s) : StartsAt(s, i, lit)

\* str.strip(): leading and trailing white space removed
RECURSIVE LStrip(_)
LStrip(s) == IF Len(s) > 0 /\ IsSpace(Ch(s, 1)) THEN LStrip(SubSeq(s, 2, Len(s))) ELSE s
RECURSIVE RStrip(_)
RStrip(s) == IF Len(s) > 0 /\ IsSpace(Ch(s, Len(s))) THEN RStrip(SubSeq(s, 1, Len(s) - 1)) ELSE s
Strip(s) == RStrip(LStrip(s))

\* str.split(sep): every occurrence of sep cuts (leftmost first, without
\* overlap), empty pieces are kept
RECURSIVE SplitFrom(_, _, _, _)
SplitFrom(s, sep, start, i) ==
    IF i > Len(s) THEN <<SubSeq(s, start, Len(s))>>
    ELSE IF StartsAt(s, i, sep)
         THEN <<SubSeq(s, start, i - 1)>> \o SplitFrom(s, sep, i + Len(sep), i + Len(sep))
         ELSE SplitFrom(s, sep, start, i + 1)
Split(s, sep) == SplitFrom(s, sep, 1, 1)

\* str.split() without argument: runs of white space cut, empty pieces dropped
SplitWords(s) == SelectSeq(Split(s, " "), LAMBDA w : w # "")

\* " ".join(words)
RECURSIVE JoinWords(_)
JoinWords(ws) ==
    IF Len(ws) = 0 THEN ""
    ELSE IF Len(ws) = 1 THEN ws[1]
    ELSE ws[1] \o " " \o JoinWords(Tail(ws))

\* words[-2:]
LastTwo(ws) == IF Len(ws) <= 2 THEN ws ELSE SubSeq(ws, Len(ws) - 1, Len(ws))

----------------------------------------------------------------------------
(* The three regular expressions of get_date_or_timeframe.  A matcher takes *)
(* the position where it starts and gives the position after what it        *)
(* consumed, 0 when it does not match; 0 propagates.  Every \w+ of the      *)
(* patterns is followed by a space or ends the pattern, and every \d{1,2}   *)
(* by a space, so the greedy choice is the only one backtracking can keep.  *)

RECURSIVE WordEnd(_, _)
WordEnd(s, i) == IF i <= Len(s) /\ IsWordChar(Ch(s, i)) THEN WordEnd(s, i + 1) ELSE i

\* \w+
MatchWord(s, i) ==
    LET e == WordEnd(s, i)
    IN  IF i = 0 \/ e = i THEN 0 ELSE e

\* \d{1,2}
MatchNum(s, i) ==
    IF i = 0 \/ i > Len(s) \/ ~IsDigit(Ch(s, i)) THEN 0
    ELSE IF i + 1 <= Len(s) /\ IsDigit(Ch(s, i + 1)) THEN i + 2 ELSE i + 1

\* literal text
MatchLit(s, i, lit) == IF i # 0 /\ StartsAt(s, i, lit) THEN i + Len(lit) ELSE 0

\* \w+ \d{1,2}
PartEnd(s, i) == MatchNum(s, MatchLit(s, MatchWord(s, i), " "))

\* \w+ \d{1,2} de \w+
DateEnd(s, i) == MatchWord(s, MatchLit(s, PartEnd(s, i), " de "))

NoGroups == <<>>

\* (\w+ \d{1,2} de \w+) anchored at i: the groups, NoGroups when no match
regex_fecha_unica(s, i) ==
    LET e == DateEnd(s, i)
    IN  IF e = 0 THEN NoGroups ELSE <<SubSeq(s, i, e - 1)>>

\* (\w+ \d{1,2}) al (\w+ \d{1,2} de \w+) anchored at i
regex_plazo_mismo_mes(s, i) ==
    LET p == PartEnd(s, i)
        a == MatchLit(s, p, " al ")
        e == DateEnd(s, a)
    IN  IF a = 0 \/ e = 0 THEN NoGroups ELSE <<SubSeq(s, i, p - 1), SubSeq(s, a, e - 1)>>

\* (\w+ \d{1,2} de \w+) al (\w+ \d{1,2} de \w+) anchored at i
regex_plazo_diferente_mes(s, i) ==
    LET d == DateEnd(s, i)
        a == MatchLit(s, d, " al ")
        e == DateEnd(s, a)
    IN  IF a = 0 \/ e = 0 THEN NoGroups ELSE <<SubSeq(s, i, d - 1), SubSeq(s, a, e - 1)>>

----------------------------------------------------------------------------
(* get_date_or_timeframe *)

\* the priorities as the docstring lists them: single date first
regex_list_as_documented ==
    << [re |-> "fecha_unica", priority |-> 1],
       [re |-> "plazo_mismo_mes", priority |-> 2],
       [re |-> "plazo_diferente_mes", priority |-> 3] >>

\* regex_list: the patterns in the order they are tried, with their priority
regex_list ==
    << [re |-> "fecha_unica", priority |-> 3],
       [re |-> "plazo_mismo_mes", priority |-> 2],
       [re |-> "plazo_diferente_mes", priority |-> 1] >>

\* (\w+) (\d{1,2}) de (\w+) anchored at i: the three groups
regex_date(s, i) ==
    LET w == MatchWord(s, i)
        n == MatchNum(s, MatchLit(s, w, " "))
        d == MatchLit(s, n, " de ")
        e == MatchWord(s, d)
    IN  IF e = 0 THEN NoGroups
        ELSE <<SubSeq(s, i, w - 1), SubSeq(s, w + 1, n - 1), SubSeq(s, d, e - 1)>>

\* the named pattern anchored at position i
MatchAt(name, s, i) ==
    CASE name = "fecha_unica" -> regex_fecha_unica(s, i)
      [] name = "plazo_mismo_mes" -> regex_plazo_mismo_mes(s, i)
      [] name = "plazo_diferente_mes" -> regex_plazo_diferente_mes(s, i)
      [] name = "date" -> regex_date(s, i)

\* the first item of the sequence that is a match
RECURSIVE FirstMatch(_)
FirstMatch(tried) ==
    IF Len(tried) = 0 THEN NoGroups
    ELSE IF tried[1] # NoGroups THEN tried[1]
    ELSE FirstMatch(Tail(tried))

\* re.search: the match at the leftmost position where the pattern matches
SearchRe(name, s) == FirstMatch([i \in 1..Len(s) |-> MatchAt(name, s, i)])

\* the list `matches` after the for loop: one item per pattern that matched,
\* in the order of regex_list
Matches(s) ==
    LET tried == [k \in 1..Len(regex_list) |->
                    [groups |-> SearchRe(regex_list[k].re, s),
                     priority |-> regex_list[k].priority]]
    IN  SelectSeq(tried, LAMBDA m : m.groups # NoGroups)

\* matches.sort(key=lambda x: x[-1]): stable, ascending in the priority
RECURSIVE InsertByPriority(_, _)
InsertByPriority(m, sorted) ==
    IF Len(sorted) = 0 THEN <<m>>
    ELSE IF m.priority < sorted[1].priority THEN <<m>> \o sorted
    ELSE <<sorted[1]>> \o InsertByPriority(m, Tail(sorted))

RECURSIVE SortByPriority(_)
SortByPriority(ms) ==
    IF Len(ms) = 0 THEN <<>>
    ELSE InsertByPriority(ms[Len(ms)], SortByPriority(SubSeq(ms, 1, Len(ms) - 1)))

NoException == "none"
FailedToFind == "Failed to find date or period in string."

\* the same-month case: the month is taken from the last two words of the end
SameMonthStart(starting_date, ending_date) ==
    starting_date \o " " \o JoinWords(LastTwo(SplitWords(ending_date)))

Returned(out_list, single_date_boolean) ==
    [raised |-> NoException, printed |-> <<>>, out |-> out_list, single |-> single_date_boolean]

\* the if / else after the sort, for the first item m of the sorted matches
FromBestMatch(m) ==
    IF Len(m.groups) = 1 THEN Returned(<<m.groups[1]>>, TRUE)
    ELSE IF m.priority = 2
    THEN Returned(<<SameMonthStart(m.groups[1], m.groups[2]), m.groups[2]>>, FALSE)
    ELSE Returned(<<m.groups[1], m.groups[2]>>, FALSE)

\* `if matches:` on the sorted matches.  With no match the message is printed,
\* `out` is never bound and the return statement raises UnboundLocalError.
FromMatches(ms) ==
    IF Len(ms) = 0
    THEN [raised |-> "UnboundLocalError", printed |-> <<FailedToFind>>,
          out |-> <<>>, single |-> FALSE]
    ELSE FromBestMatch(ms[1])

\* The result of a call: what it printed, the exception it raised (NoException
\* when it returned) and the returned pair (out, single_date_boolean).
get_date_or_timeframe(s) == FromMatches(SortByPriority(Matches(s)))

----------------------------------------------------------------------------
(* Constants of the script.  Accented letters are written unaccented.      *)

CURRENT_YEAR == 2025

DAYS == <<"lunes", "martes", "miercoles", "jueves", "viernes", "sabado", "domingo">>

MONTHS == <<"enero", "febrero", "marzo", "abril", "mayo", "junio",
            "julio", "agosto", "septiembre", "octubre", "noviembre", "diciembre">>

SeqToSet(q) == {q[i] : i \in 1..Len(q)}

IndexIn(q, x) == CHOOSE i \in 1..Len(q) : q[i] = x

----------------------------------------------------------------------------
(* Numbers and text *)

DigitValue(c) == (CHOOSE i \in 1..Len(DigitChars) : Ch(DigitChars, i) = c) - 1

\* int(text) for a string of digits
RECURSIVE StrToNat(_)
StrToNat(s) ==
    IF Len(s) = 0 THEN 0
    ELSE 10 * StrToNat(SubSeq(s, 1, Len(s) - 1)) + DigitValue(Ch(s, Len(s)))

\* str(n)
RECURSIVE NatToStr(_)
NatToStr(n) ==
    IF n < 10 THEN Ch(DigitChars, n + 1)
    ELSE NatToStr(n \div 10) \o Ch(DigitChars, (n % 10) + 1)

\* the %m and %d fields: two digits, zero padded
TwoDigits(n) == IF n < 10 THEN "0" \o NatToStr(n) ELSE NatToStr(n)

\* MONTHS_DICT[month]
MONTHS_DICT(month) == TwoDigits(IndexIn(MONTHS, month))

----------------------------------------------------------------------------
(* strip_event_affixes and normalize_event_casing *)

CharIndex(alpha, c) == CHOOSE i \in 1..Len(alpha) : Ch(alpha, i) = c

LowerChar(c) == IF c \in UpperSet THEN Ch(LowerAlpha, CharIndex(UpperAlpha, c)) ELSE c
UpperChar(c) == IF c \in LowerSet THEN Ch(UpperAlpha, CharIndex(LowerAlpha, c)) ELSE c

\* str.lower()
RECURSIVE Lower(_)
Lower(s) == IF Len(s) = 0 THEN "" ELSE LowerChar(Ch(s, 1)) \o Lower(SubSeq(s, 2, Len(s)))

\* str.capitalize(): first character upper case, the rest lower case
Capitalize(s) ==
    IF Len(s) = 0 THEN "" ELSE UpperChar(Ch(s, 1)) \o Lower(SubSeq(s, 2, Len(s)))

normalize_event_casing(event_name) == Capitalize(Lower(event_name))

PrefixSemanaDe == "Semana de"
SuffixDeCuatrimestre == "de cuatrimestre"

strip_event_affixes(event_name) ==
    LET a == IF StartsWith(event_name, PrefixSemanaDe)
             THEN Strip(SubSeq(event_name, Len(PrefixSemanaDe) + 1, Len(event_name)))
             ELSE event_name
    IN  IF EndsWith(a, SuffixDeCuatrimestre)
        THEN Strip(SubSeq(a, 1, Len(a) - Len(SuffixDeCuatrimestre)))
        ELSE a

----------------------------------------------------------------------------
(* parse_date_from_string.  difflib and dateparser are libraries: an exact   *)
(* vocabulary word is its own closest match, any other word may be matched   *)
(* to any entry or to none; a phrase naming a day the month has is parsed to *)
(* that day of the current year, any other phrase is not parsed (None).      *)

NoMatch == "<no match>"

\* difflib.get_close_matches(word, vocabulary, n=1): the possible first items
CloseMatches(word, vocabulary) ==
    IF word \in SeqToSet(vocabulary) THEN {word}
    ELSE SeqToSet(vocabulary) \cup {NoMatch}

IsLeap(y) == (y % 4 = 0 /\ y % 100 # 0) \/ y % 400 = 0

DaysInMonth(y, m) ==
    IF m = 2 THEN (IF IsLeap(y) THEN 29 ELSE 28)
    ELSE IF m \in {4, 6, 9, 11} THEN 30 ELSE 31

\* datetime.date.weekday(), as an index into WeekdayAbbr (1 = Sunday)
MonthShift == <<0, 3, 2, 5, 0, 3, 5, 1, 4, 6, 2, 4>>
WeekdayIndex(y, m, d) ==
    LET yy == IF m < 3 THEN y - 1 ELSE y
    IN  ((yy + (yy \div 4) + (yy \div 400) + MonthShift[m] + d - (yy \div 100)) % 7) + 1

WeekdayAbbr == <<"Sun", "Mon", "Tue", "Wed", "Thu", "Fri", "Sat">>

\* date.strftime("<%Y-%m-%d %a>")
FormatStamp(y, m, d) ==
    "<" \o NatToStr(y) \o "-" \o TwoDigits(m) \o "-" \o TwoDigits(d) \o " "
        \o WeekdayAbbr[WeekdayIndex(y, m, d)] \o ">"

\* dateparser.parse("<dayname> <daynumber> <monthname>").date(), formatted;
\* raises AttributeError when the parser gives None
DateparserStamp(dayname, daynumber, monthname) ==
    LET m == IndexIn(MONTHS, monthname)
        d == StrToNat(daynumber)
    IN  IF d >= 1 /\ d <= DaysInMonth(CURRENT_YEAR, m)
        THEN [raised |-> NoException, stamp |-> FormatStamp(CURRENT_YEAR, m, d)]
        ELSE [raised |-> "AttributeError", stamp |-> ""]

\* the typo correction and the parse, for the groups g of regex_date
\* (AttributeError when the expression did not match)
FromDateGroups(g) ==
    IF g = NoGroups THEN {[raised |-> "AttributeError", stamp |-> ""]}
    ELSE UNION {
            IF dayname = NoMatch THEN {[raised |-> "IndexError", stamp |-> ""]}
            ELSE { IF monthname = NoMatch THEN [raised |-> "IndexError", stamp |-> ""]
                   ELSE DateparserStamp(dayname, g[2], monthname)
                   : monthname \in CloseMatches(g[3], MONTHS) }
            : dayname \in CloseMatches(g[1], DAYS) }

\* the possible results of parse_date_from_string followed by strftime
parse_date_from_string(date_in_text_format) ==
    FromDateGroups(SearchRe("date", date_in_text_format))

----------------------------------------------------------------------------
(* One iteration of the line loop of                                        *)
(* create_org_contents_from_calendar_headers                                *)

PrimeraFecha == "Primera fecha"
SegundaFecha == "Segunda fecha"
TerceraFecha == "Tercera fecha"

NotSentinel == "<not a sentinel>"

\* the if / elif chain on the line: the suffix a sentinel line sets,
\* NotSentinel for a line that reaches the else branch
SentinelSuffix(l) ==
    IF Contains(l, PrimeraFecha) THEN " (1ra fecha)"
    ELSE IF Contains(l, SegundaFecha) THEN " (2da fecha)"
    ELSE IF Contains(l, TerceraFecha) THEN " (3ra fecha)"
    ELSE NotSentinel

\* a split that keeps the whole line as the label when there is no colon
SplitLinePartition(l) == IF Len(Split(l, ":")) = 1 THEN <<l, "">> ELSE Split(l, ":")

\* line.split(':')
SplitLine(l) == Split(l, ":")

\* the event name printed by the single-date branch
SingleDateEventName(event_name) == normalize_event_casing(event_name)

\* the event name printed by the timeframe branch
TimeframeEventName(event_name) == normalize_event_casing(strip_event_affixes(event_name))

TitleLine(short_name, event_name, sfx) == "**** " \o short_name \o " " \o event_name \o sfx

Outcome(sfx, printed, raised) == [suffix |-> sfx, printed |-> printed, raised |-> raised]

\* the branch `if is_single_date`
SingleDateOutcomes(short_name, sfx, event_name, dates) ==
    { IF d.raised # NoException THEN Outcome(sfx, <<>>, d.raised)
      ELSE Outcome(sfx, <<TitleLine(short_name, SingleDateEventName(event_name), sfx),
                          d.stamp>>, NoException)
      : d \in parse_date_from_string(dates[1]) }

\* the branch `else`: both ends are parsed, then the entry is printed
TimeframeOutcomes(short_name, sfx, event_name, dates) ==
    { IF a.raised # NoException THEN Outcome(sfx, <<>>, a.raised)
      ELSE IF b.raised # NoException THEN Outcome(sfx, <<>>, b.raised)
      ELSE Outcome(sfx, <<TitleLine(short_name, TimeframeEventName(event_name), sfx),
                          a.stamp \o "-" \o b.stamp>>, NoException)
      : <<a, b>> \in parse_date_from_string(dates[1]) \X parse_date_from_string(dates[2]) }

\* the else branch once the date text was searched: g is what
\* get_date_or_timeframe gave
DatedLineOutcomes(short_name, sfx, event_name, g) ==
    IF g.raised # NoException THEN {Outcome(sfx, g.printed, g.raised)}
    ELSE IF g.single THEN SingleDateOutcomes(short_name, sfx, event_name, g.out)
    ELSE TimeframeOutcomes(short_name, sfx, event_name, g.out)

\* the else branch: the unpacking of the pieces of the line needs exactly two
DataLineOutcomes(short_name, sfx, parts) ==
    IF Len(parts) # 2 THEN {Outcome(sfx, <<>>, "ValueError")}
    ELSE DatedLineOutcomes(short_name, sfx, parts[1], get_date_or_timeframe(parts[2]))

\* the if / elif chain, for the suffix the sentinel tests gave
ChainOutcomes(short_name, sfx, l, sentinel) ==
    IF sentinel # NotSentinel THEN {Outcome(sentinel, <<>>, NoException)}
    ELSE DataLineOutcomes(short_name, sfx, SplitLine(l))

\* The possible outcomes of the loop body on line l: the suffix after it, the
\* lines it printed and the exception it raised (NoException when it completed).
LineOutcomes(short_name, sfx, l) == ChainOutcomes(short_name, sfx, l, SentinelSuffix(l))

----------------------------------------------------------------------------
(* Bounds and inputs *)

MaxSections == 2    \* items of the cursada dictionary
MaxLines == 3       \* lines of section text read in one run

\* (full section name, short name) items a configuration may hold
CalHeaders == { <<"Primer cuatrimestre", "1C">>, <<"Examenes finales", "FIN">> }

\* ordered dictionaries over CalHeaders: sequences of items with distinct keys
RECURSIVE DictsOfSize(_)
DictsOfSize(n) ==
    IF n = 0 THEN {<<>>}
    ELSE UNION { { Append(d, h) : h \in {x \in CalHeaders : \A i \in 1..Len(d) : d[i] # x} }
                 : d \in DictsOfSize(n - 1) }
SectionDicts == UNION {DictsOfSize(n) : n \in 0..MaxSections}

\* lines a section of the page may hold
SectionLines ==
    { "Primera fecha", "Segunda fecha", "Tercera fecha",
      "Primera fecha: lunes 15 de junio",
      "Final de Fisica: lunes 15 de junio",
      "Semana de Finales de cuatrimestre: martes 1 de julio",
      "Semana de EXAMENES: lunes 10 al viernes 15 de marzo",
      "Receso: lunes 10 de marzo al martes 28 de abril",
      "Inicio: a confirmar",
      "Acto 18:30: lunes 15 de junio",
      "Asueto",
      "" }

----------------------------------------------------------------------------
(* The run *)

Traceback(e) == "Traceback (most recent call last): " \o e

\* an exception nobody catches: the traceback goes to the error stream and
\* the interpreter exits with status 1
Crash(e) ==
    /\ pc' = "done"
    /\ exitCode' = 1
    /\ err' = Append(err, Traceback(e))

RECURSIVE TotalLines(_)
TotalLines(d) == IF Len(d) = 0 THEN 0 ELSE Len(d[1]) + TotalLines(Tail(d))

\* a section that starts with the suffix the previous one ended with
SuffixKeptAcrossSections(previous) == previous

\* the suffix a section starts with
SuffixAtSectionStart(previous) == ""

\* the first two print statements of create_org_contents_from_calendar_headers
PrintYear ==
    /\ pc = "cursada"
    /\ out' = out \o <<"* " \o NatToStr(CURRENT_YEAR), "** FECHAS DE CURSADA Y DE FINALES">>
    /\ hdr' = 0
    /\ pc' = "section"
    /\ UNCHANGED <<cfg, suffix, line, doc, err, exitCode, otherVars>>

\* head of the loop over cal_headers.items(): the section heading is printed,
\* get_section_lines looks the header up (AttributeError when the page has no
\* such header) and the suffix is reset; after the last item the function
\* returns to main
NextSection ==
    /\ pc = "section"
    /\ IF hdr < Len(cfg.items)
       THEN /\ out' = Append(out, "*** " \o cfg.items[hdr + 1][1])
            /\ hdr' = hdr + 1
            /\ \E found \in BOOLEAN :
                 IF found
                 THEN /\ suffix' = SuffixAtSectionStart(suffix)
                      /\ doc' = Append(doc, <<>>)
                      /\ pc' = "line"
                      /\ UNCHANGED <<err, exitCode>>
                 ELSE /\ Crash("AttributeError")
                      /\ UNCHANGED <<suffix, doc>>
       ELSE /\ pc' = "main_holidays"
            /\ UNCHANGED <<hdr, suffix, doc, out, err, exitCode>>
    /\ UNCHANGED <<cfg, line, otherVars>>

\* one iteration of the loop over section_text, on the next line l of the page
ProcessLine(l) ==
    /\ pc = "line"
    /\ TotalLines(doc) < MaxLines
    /\ line' = l
    /\ doc' = [doc EXCEPT ![Len(doc)] = Append(@, l)]
    /\ \E o \in LineOutcomes(cfg.items[hdr][2], suffix, l) :
         /\ suffix' = o.suffix
         /\ out' = out \o o.printed
         /\ IF o.raised = NoException
            THEN pc' = "line" /\ UNCHANGED <<err, exitCode>>
            ELSE Crash(o.raised)
    /\ UNCHANGED <<cfg, hdr, otherVars>>

\* section_text is exhausted
EndSection ==
    /\ pc = "line"
    /\ pc' = "section"
    /\ UNCHANGED <<cfg, hdr, suffix, line, doc, out, err, exitCode, otherVars>>

NoCfg == [cursada |-> FALSE, items |-> <<>>, holidays |-> FALSE, semanas |-> FALSE]
Unbound == "<unbound>"
NoHol == [output_text |-> <<>>, day_number |-> Unbound, month_name |-> Unbound, rows |-> 0]
NoRet == [raised |-> NoException, printed |-> <<>>, out |-> <<>>, single |-> FALSE]

\* create_org_contents_from_calendar_headers called with any dictionary
InitSections ==
    /\ pc = "cursada"
    /\ cfg \in {[cursada |-> TRUE, items |-> d, holidays |-> FALSE, semanas |-> FALSE] :
                  d \in SectionDicts}
    /\ hdr = 0
    /\ suffix = ""
    /\ line = ""
    /\ doc = <<>>
    /\ out = <<>>
    /\ err = <<>>
    /\ exitCode = 0
    /\ hol = NoHol
    /\ week = 0
    /\ tagged = 0
    /\ section_text = ""
    /\ ret = NoRet

NextSections ==
    \/ PrintYear
    \/ NextSection
    \/ \E l \in SectionLines : ProcessLine(l)
    \/ EndSection

SpecSections == InitSections /\ [][NextSections]_vars

----------------------------------------------------------------------------
(* create_org_contents_from_holidays_header *)

MaxRows == 2        \* rows of the holiday table

\* rows the holiday table may hold: the texts of the td cells of a row
HolidayRows ==
    { <<"lunes", "24 de marzo", "Dia de la Memoria", "Inamovible">>,
      <<"viernes", "18 abril", "Viernes Santo", "">>,
      <<>> }

\* str.zfill(2)
ZFill2(t) == IF Len(t) = 0 THEN "00" ELSE IF Len(t) = 1 THEN "0" \o t ELSE t

StripAll(parts) == [i \in 1..Len(parts) |-> Strip(parts[i])]

HolidayEntry(event, day_name, day_number, month_name, stamp, condition) ==
    << "*** Feriado: " \o event \o " (" \o day_name \o " " \o day_number \o " de "
           \o month_name \o ")",
       "<" \o stamp \o ">",
       "Condicion: " \o condition \o "." >>

\* the try block and what follows it, for one row with cells: the date cell is
\* split around "de"; a ValueError of the unpacking is caught and leaves
\* day_number and month_name as they were (unbound in the first row)
HolidayDateOutcomes(h, day_name, cells) ==
    LET parts == StripAll(Split(cells[2], "de"))
        condition == IF cells[4] = "" THEN "No especificada en el sitio web" ELSE cells[4]
        Emit(dn, mn, stamp) ==
            IF dn = Unbound
            THEN [hol |-> h, raised |-> "UnboundLocalError"]
            ELSE [hol |-> [output_text |-> h.output_text
                                \o HolidayEntry(cells[3], day_name, dn, mn, stamp, condition),
                           day_number |-> dn, month_name |-> mn, rows |-> h.rows + 1],
                  raised |-> NoException]
    IN  IF Len(parts) # 2
        THEN {Emit(h.day_number, h.month_name, "Fecha invalida")}
        ELSE { IF mn = NoMatch THEN [hol |-> h, raised |-> "IndexError"]
               ELSE Emit(parts[1], mn,
                         NatToStr(CURRENT_YEAR) \o "-" \o MONTHS_DICT(mn) \o "-" \o ZFill2(parts[1]))
               : mn \in CloseMatches(parts[2], MONTHS) }

\* the possible outcomes of the loop body on one table row
HolidayRowOutcomes(h, cells) ==
    IF Len(cells) = 0
    THEN {[hol |-> [h EXCEPT !.rows = @ + 1], raised |-> NoException]}
    ELSE UNION {
            IF day_name = NoMatch \/ Len(cells) < 4
            THEN {[hol |-> h, raised |-> "IndexError"]}
            ELSE HolidayDateOutcomes(h, day_name, cells)
            : day_name \in CloseMatches(cells[1], DAYS) }

\* `if include_holidays is not None` in main
MainHolidays ==
    /\ pc = "main_holidays"
    /\ pc' = IF cfg.holidays THEN "holidays" ELSE "main_semanas"
    /\ UNCHANGED <<cfg, hdr, suffix, line, doc, out, err, exitCode, otherVars>>

\* soup.find_all("table")[-1] (IndexError when the page has no table) and the
\* first line of output_text
BeginHolidays ==
    /\ pc = "holidays"
    /\ \E has_table \in BOOLEAN :
         IF has_table
         THEN /\ hol' = [NoHol EXCEPT !.output_text = <<"** FERIADOS">>]
              /\ pc' = "holiday_row"
              /\ UNCHANGED <<err, exitCode>>
         ELSE /\ Crash("IndexError")
              /\ UNCHANGED hol
    /\ UNCHANGED <<cfg, hdr, suffix, line, doc, out, week, tagged, section_text, ret>>

\* one iteration of the loop over the rows of the table
HolidayRow(cells) ==
    /\ pc = "holiday_row"
    /\ hol.rows < MaxRows
    /\ \E o \in HolidayRowOutcomes(hol, cells) :
         /\ hol' = o.hol
         /\ IF o.raised = NoException
            THEN pc' = "holiday_row" /\ UNCHANGED <<err, exitCode>>
            ELSE Crash(o.raised)
    /\ UNCHANGED <<cfg, hdr, suffix, line, doc, out, week, tagged, section_text, ret>>

\* after the last row: print(output_text), whose last line is followed by the
\* empty line print adds
EndHolidays ==
    /\ pc = "holiday_row"
    /\ out' = out \o hol.output_text \o <<"">>
    /\ pc' = "main_semanas"
    /\ UNCHANGED <<cfg, hdr, suffix, line, doc, err, exitCode, otherVars>>

----------------------------------------------------------------------------
(* create_org_contents_from_science_weeks_header *)

MaxTagged == 1      \* science weeks the page has a <strong> tag for

ScienceWeeks ==
    << "Semana de la Matematica y de las Ciencias de Datos",
       "Semana de las Ciencias de la Tierra",
       "Semana de la Fisica",
       "Semana de la Computacion y de las Ciencias de Datos",
       "Semana de la Biologia",
       "Semana de la Quimica y de los Alimentos",
       "Semana de la Ensenanza de las Ciencias" >>

\* what the page may hold for a science week that has its tag: the text that
\* follows the tag ("" when there is none)
WeekTexts == { "", "12, 13 y 14 de marzo", "a confirmar", "30 y 31 de marzo" }

\* re.findall(r'\d+', t)
RECURSIVE FindNumbers(_)
FindNumbers(t) ==
    IF Len(t) = 0 THEN <<>>
    ELSE IF ~IsDigit(Ch(t, 1)) THEN FindNumbers(SubSeq(t, 2, Len(t)))
    ELSE LET e == CHOOSE j \in 1..Len(t) :
                      /\ \A i \in 1..j : IsDigit(Ch(t, i))
                      /\ (j = Len(t) \/ ~IsDigit(Ch(t, j + 1)))
         IN  <<SubSeq(t, 1, e)>> \o FindNumbers(SubSeq(t, e + 1, Len(t)))

\* datetime(CURRENT_YEAR, m, d).date().strftime('%Y-%m-%d')
IsoDate(m, d) == NatToStr(CURRENT_YEAR) \o "-" \o TwoDigits(m) \o "-" \o TwoDigits(d)

\* what one call of add_entries_for_science_week prints and raises
ScienceWeekOutcome(science_week_name, tag, text) ==
    LET t == Strip(text)
        found == {m \in 1..Len(MONTHS) : Contains(Lower(t), MONTHS[m])}
        m == CHOOSE x \in found : \A y \in found : x <= y
        days == FindNumbers(Split(t, MONTHS[m])[1])
        bad == {i \in 1..Len(days) :
                  StrToNat(days[i]) < 1 \/ StrToNat(days[i]) > DaysInMonth(CURRENT_YEAR, m)}
    IN  IF ~tag
        THEN [printed |-> <<"Texto no encontrado en la pagina.", "">>, raised |-> NoException]
        ELSE IF text = ""
        THEN [printed |-> <<"No se encontro la fecha despues del texto buscado.", "">>,
              raised |-> NoException]
        ELSE IF found = {}
        THEN [printed |-> <<"Mes no encontrado en el texto.", "">>, raised |-> NoException]
        ELSE IF bad # {}
        THEN [printed |-> <<>>, raised |-> "ValueError"]
        ELSE IF Len(days) < 3
        THEN [printed |-> <<>>, raised |-> "IndexError"]
        ELSE [printed |-> <<"*** " \o science_week_name,
                            "<" \o IsoDate(m, StrToNat(days[1])) \o ">-<"
                                \o IsoDate(m, StrToNat(days[3])) \o ">">>,
              raised |-> NoException]

\* `if headers_semanas is not None` in main, and the heading of the block
MainSemanas ==
    /\ pc = "main_semanas"
    /\ IF cfg.semanas
       THEN /\ out' = Append(out, "** SEMANAS DE LAS CIENCIAS")
            /\ pc' = "science_week"
       ELSE /\ pc' = "return"
            /\ UNCHANGED out
    /\ week' = 0
    /\ tagged' = 0
    /\ UNCHANGED <<cfg, hdr, suffix, line, doc, err, exitCode, hol, section_text, ret>>

\* the next of the seven calls of add_entries_for_science_week
ScienceWeek ==
    /\ pc = "science_week"
    /\ week < Len(ScienceWeeks)
    /\ week' = week + 1
    /\ \E tag \in BOOLEAN, text \in WeekTexts :
         /\ tag => tagged < MaxTagged
         /\ ~tag => text = ""
         /\ tagged' = IF tag THEN tagged + 1 ELSE tagged
         /\ LET o == ScienceWeekOutcome(ScienceWeeks[week + 1], tag, text)
            IN  /\ out' = out \o o.printed
                /\ IF o.raised = NoException
                   THEN pc' = "science_week" /\ UNCHANGED <<err, exitCode>>
                   ELSE Crash(o.raised)
    /\ UNCHANGED <<cfg, hdr, suffix, line, doc, hol, section_text, ret>>

EndScienceWeeks ==
    /\ pc = "science_week"
    /\ week = Len(ScienceWeeks)
    /\ pc' = "return"
    /\ UNCHANGED <<cfg, hdr, suffix, line, doc, out, err, exitCode, otherVars>>

----------------------------------------------------------------------------
(* main and get_events_from_yaml_file *)

\* what the headers file may be: absent, empty (yaml gives None), or a mapping
\* that holds or not each of the three main headers.  A main header whose
\* value is null counts as absent for the cursada and semanas entries.
YamlFiles ==
    { [kind |-> "missing", cursada |-> FALSE, items |-> <<>>, holidays |-> FALSE,
       semanas |-> FALSE],
      [kind |-> "null", cursada |-> FALSE, items |-> <<>>, holidays |-> FALSE,
       semanas |-> FALSE] }
    \cup { [kind |-> "mapping", cursada |-> c, items |-> d, holidays |-> h, semanas |-> w] :
             c \in BOOLEAN, d \in SectionDicts, h \in BOOLEAN, w \in BOOLEAN }

\* lines a section of the page may hold in a whole run of main
MainLines == { "Primera fecha", "Final de Fisica: lunes 15 de junio", "Asueto" }

\* the triple get_events_from_yaml_file returns for a mapping
get_events_from_yaml_file(y) ==
    [cursada |-> y.cursada,
     items |-> IF y.cursada THEN y.items ELSE <<>>,
     holidays |-> y.holidays,
     semanas |-> y.semanas]

\* read_html_source_from_url: it returns the parsed page or raises
\* (requests.get, raise_for_status); it never returns None
Fetch ==
    /\ pc = "fetch"
    /\ \E fetched \in BOOLEAN :
         IF fetched
         THEN pc' = "config" /\ UNCHANGED <<err, exitCode>>
         ELSE Crash("RequestException")
    /\ UNCHANGED <<cfg, hdr, suffix, line, doc, out, otherVars>>

\* the call of get_events_from_yaml_file: open() raises FileNotFoundError, and
\* `main_header_cursada in all_headers` raises TypeError when yaml gave None
LoadConfig ==
    /\ pc = "config"
    /\ \E y \in YamlFiles :
         IF y.kind = "missing" THEN Crash("FileNotFoundError") /\ UNCHANGED cfg
         ELSE IF y.kind = "null" THEN Crash("TypeError") /\ UNCHANGED cfg
         ELSE /\ cfg' = get_events_from_yaml_file(y)
              /\ pc' = "main_cursada"
              /\ UNCHANGED <<err, exitCode>>
    /\ UNCHANGED <<hdr, suffix, line, doc, out, otherVars>>

\* `if headers_cursada is not None` in main
MainCursada ==
    /\ pc = "main_cursada"
    /\ pc' = IF cfg.cursada THEN "cursada" ELSE "main_holidays"
    /\ UNCHANGED <<cfg, hdr, suffix, line, doc, out, err, exitCode, otherVars>>

\* `return 0` and sys.exit
Return ==
    /\ pc = "return"
    /\ pc' = "done"
    /\ exitCode' = 0
    /\ UNCHANGED <<cfg, hdr, suffix, line, doc, out, err, hol, week, tagged, section_text, ret>>

Init ==
    /\ pc = "fetch"
    /\ cfg = NoCfg
    /\ hdr = 0
    /\ suffix = ""
    /\ line = ""
    /\ doc = <<>>
    /\ out = <<>>
    /\ err = <<>>
    /\ exitCode = 0
    /\ hol = NoHol
    /\ week = 0
    /\ tagged = 0
    /\ section_text = ""
    /\ ret = NoRet

Next ==
    \/ Fetch
    \/ LoadConfig
    \/ MainCursada
    \/ PrintYear
    \/ NextSection
    \/ \E l \in MainLines : ProcessLine(l)
    \/ EndSection
    \/ MainHolidays
    \/ BeginHolidays
    \/ \E cells \in HolidayRows : HolidayRow(cells)
    \/ EndHolidays
    \/ MainSemanas
    \/ ScienceWeek
    \/ EndScienceWeeks
    \/ Return

Spec == Init /\ [][Next]_vars

----------------------------------------------------------------------------
(* get_date_or_timeframe called on its own, on any fragment of a bounded set *)

FragmentWords == {"lunes", "viernes", "marzo", "de", "al", "7"}
FragmentNumbers == {"5", "10"}

SingleDateShape(d, n, m) == d \o " " \o n \o " de " \o m
SameMonthShape(d1, n1, d2, n2, m) ==
    d1 \o " " \o n1 \o " al " \o d2 \o " " \o n2 \o " de " \o m
CrossMonthShape(d1, n1, m1, d2, n2, m2) ==
    d1 \o " " \o n1 \o " de " \o m1 \o " al " \o d2 \o " " \o n2 \o " de " \o m2

Fragments ==
    { SingleDateShape(d, n, m) : d \in FragmentWords, n \in FragmentNumbers, m \in FragmentWords }
    \cup { SameMonthShape(x[1], n1, x[2], n2, x[3]) :
             x \in FragmentWords \X FragmentWords \X FragmentWords,
             n1 \in FragmentNumbers, n2 \in FragmentNumbers }
    \cup { CrossMonthShape(x[1], n1, x[2], x[3], n2, x[4]) :
             x \in FragmentWords \X FragmentWords \X FragmentWords \X FragmentWords,
             n1 \in FragmentNumbers, n2 \in FragmentNumbers }
    \cup { " del lunes 10 de marzo al martes 28 de abril inclusive.",
           " desde el lunes 10 al viernes 15 de marzo.",
           " lunes 15 de junio (a confirmar)",
           " a confirmar", "", "lunes 123 de marzo", "lunes 10 demarzo",
           "lunes 10 al viernes 151 de marzo" }

InitExtract ==
    /\ pc = "call"
    /\ section_text \in Fragments
    /\ ret = NoRet
    /\ cfg = NoCfg
    /\ hdr = 0
    /\ suffix = ""
    /\ line = ""
    /\ doc = <<>>
    /\ out = <<>>
    /\ err = <<>>
    /\ exitCode = 0
    /\ hol = NoHol
    /\ week = 0
    /\ tagged = 0

\* the call: it prints, then returns its pair or raises
GetDateCall ==
    /\ pc = "call"
    /\ ret' = get_date_or_timeframe(section_text)
    /\ out' = out \o ret'.printed
    /\ pc' = IF ret'.raised = NoException THEN "returned" ELSE "raised"
    /\ UNCHANGED <<cfg, hdr, suffix, line, doc, err, exitCode, hol, week, tagged, section_text>>

NextExtract == GetDateCall

SpecExtract == InitExtract /\ [][NextExtract]_vars

----------------------------------------------------------------------------
(* Properties of get_date_or_timeframe, checked under SpecExtract *)

IsWord(t) == Len(t) > 0 /\ \A i \in 1..Len(t) : IsWordChar(Ch(t, i))
IsDayNumber(t) == Len(t) \in {1, 2} /\ \A i \in 1..Len(t) : IsDigit(Ch(t, i))

\* the fragment is "<d1> <n1> al <d2> <n2> de <m>": seven words, single spaces
IsSameMonthFragment(f) ==
    LET t == Split(f, " ")
    IN  /\ Len(t) = 7
        /\ IsWord(t[1]) /\ IsDayNumber(t[2]) /\ t[3] = "al"
        /\ IsWord(t[4]) /\ IsDayNumber(t[5]) /\ t[6] = "de" /\ IsWord(t[7])

\* C1 as claimed: when the single-date pattern and the cross-month pattern both
\* match the fragment, the call returns one date with the single-date flag.
C1_SingleDateWins ==
    (/\ pc # "call"
     /\ SearchRe("fecha_unica", section_text) # NoGroups
     /\ SearchRe("plazo_diferente_mes", section_text) # NoGroups)
        => pc = "returned" /\ ret.single /\ Len(ret.out) = 1

----------------------------------------------------------------------------
(* Vocabulary of the properties of the line loop *)

\* a step of the line loop: one more line of the section has been consumed
LineStep == pc = "line" /\ doc' # doc

\* the line carries one of the three marker texts
HasMarker(l) ==
    Contains(l, PrimeraFecha) \/ Contains(l, SegundaFecha) \/ Contains(l, TerceraFecha)

\* the line is one of the three markers and nothing else
IsMarkerLine(l) == Strip(l) \in {PrimeraFecha, SegundaFecha, TerceraFecha}

MarkerSuffix(l) ==
    IF Contains(l, PrimeraFecha) THEN " (1ra fecha)"
    ELSE IF Contains(l, SegundaFecha) THEN " (2da fecha)"
    ELSE " (3ra fecha)"

ColonCount(l) == Cardinality({i \in 1..Len(l) : Ch(l, i) = ":"})

FirstColon(l) == CHOOSE i \in 1..Len(l) : Ch(l, i) = ":" /\ \A j \in 1..(i - 1) : Ch(l, j) # ":"
BeforeFirstColon(l) == SubSeq(l, 1, FirstColon(l) - 1)
AfterFirstColon(l) == SubSeq(l, FirstColon(l) + 1, Len(l))

\* some pattern of get_date_or_timeframe matches the text
SomePatternMatches(t) ==
    \/ SearchRe("fecha_unica", t) # NoGroups
    \/ SearchRe("plazo_mismo_mes", t) # NoGroups
    \/ SearchRe("plazo_diferente_mes", t) # NoGroups

\* the step printed an entry: a title line and, right after it, a stamp line
EntryPrinted ==
    /\ Len(out') = Len(out) + 2
    /\ SubSeq(out', 1, Len(out)) = out
    /\ StartsWith(out'[Len(out) + 1], "**** ")
    /\ StartsWith(out'[Len(out) + 2], "<")

\* the step printed no title line and no stamp line
NoEntryPrinted ==
    \A i \in (Len(out) + 1)..Len(out') :
        ~StartsWith(out'[i], "*") /\ ~StartsWith(out'[i], "<")

\* the positions in out of the section headings, and what section k printed
Indices(q) == [i \in 1..Len(q) |-> i]
HeadingIdx == SelectSeq(Indices(out), LAMBDA i : StartsWith(out[i], "*** "))
SectionOut(k) ==
    SubSeq(out, HeadingIdx[k] + 1,
           IF k < Len(HeadingIdx) THEN HeadingIdx[k + 1] - 1 ELSE Len(out))
TitlesOf(k) == SelectSeq(SectionOut(k), LAMBDA t : StartsWith(t, "**** "))

\* the positions in a section's lines of the lines without marker
DataIdx(L) == SelectSeq(Indices(L), LAMBDA i : ~HasMarker(L[i]))

\* the suffix of the most recent marker-carrying line before position i of L
ExpectedSuffix(L, i) ==
    LET S == {j \in 1..(i - 1) : HasMarker(L[j])}
    IN  IF S = {} THEN ""
        ELSE MarkerSuffix(L[CHOOSE j \in S : \A h \in S : h <= j])

CarriesSuffix(title, sfx) ==
    IF sfx = "" THEN ~EndsWith(title, " fecha)") ELSE EndsWith(title, sfx)

----------------------------------------------------------------------------
(* Properties of the line loop, checked under SpecSections *)

C4_SentinelExactlyMarkerLine ==
    [][LineStep =>
         IF IsMarkerLine(line')
         THEN out' = out /\ pc' = "line" /\ suffix' = MarkerSuffix(line')
         ELSE out' # out \/ pc' = "done"]_vars

\* C5: a line without marker and without colon raises ValueError at that line;
\* nothing is printed for it and the run stops there with status 1.
C5_NoColonFails ==
    [][LineStep /\ ~HasMarker(line') /\ ColonCount(line') = 0 =>
         /\ pc' = "done"
         /\ exitCode' = 1
         /\ out' = out
         /\ err' = Append(err, Traceback("ValueError"))]_vars

\* a run stopped by a colon-less line after an earlier entry was printed
C5_Witness ==
    /\ pc = "done"
    /\ exitCode = 1
    /\ line = "Asueto"
    /\ Len(out) > 3
    /\ err = <<Traceback("ValueError")>>

\* C6 as claimed: a line without marker and with one or more colons is split at
\* its first colon; when the text after the first colon holds a date, an entry
\* is printed for it and the loop goes on, extra colons or not.
C6_SplitAtFirstColon ==
    [][LineStep /\ ~HasMarker(line') /\ ColonCount(line') >= 1
          /\ SomePatternMatches(AfterFirstColon(line')) =>
         EntryPrinted /\ pc' = "line"]_vars

\* C7 as claimed: the label of every printed title is
\* normalize_event_casing(strip_event_affixes(label)), single date or range.
C7_LabelStrippedThenNormalized ==
    [][LineStep /\ EntryPrinted =>
         out'[Len(out) + 1] =
             TitleLine(cfg.items[hdr][2],
                       normalize_event_casing(strip_event_affixes(BeforeFirstColon(line'))),
                       suffix)]_vars

\* C8 as claimed: when no pattern matches the date text, no entry is printed
\* for the line and the loop goes on with the lines that follow.
C8_NoDateRecoverable ==
    [][LineStep /\ ~HasMarker(line') /\ ColonCount(line') = 1
          /\ ~SomePatternMatches(AfterFirstColon(line')) =>
         NoEntryPrinted /\ pc' = "line"]_vars

\* C10 as claimed: after an error-free call the output is one "* " line, then
\* per configured section, in order, one "** " heading followed by a title
\* line and a stamp line per data-bearing line; nothing else.
LineClass(l) ==
    IF StartsWith(l, "* ") THEN "top"
    ELSE IF StartsWith(l, "** ") THEN "section " \o SubSeq(l, 4, Len(l))
    ELSE IF StartsWith(l, "<") THEN "stamp"
    ELSE IF StartsWith(l, "***") THEN "title"
    ELSE "other"

RECURSIVE EntryClasses(_)
EntryClasses(n) == IF n = 0 THEN <<>> ELSE <<"title", "stamp">> \o EntryClasses(n - 1)

RECURSIVE ClaimedOutline(_)
ClaimedOutline(k) ==
    IF k = 0 THEN <<"top">>
    ELSE ClaimedOutline(k - 1) \o <<"section " \o cfg.items[k][1]>>
            \o EntryClasses(Len(DataIdx(doc[k])))

C10_OutlineAsClaimed ==
    pc = "main_holidays" =>
        [i \in 1..Len(out) |-> LineClass(out[i])] = ClaimedOutline(Len(cfg.items))

----------------------------------------------------------------------------
(* Properties of main, checked under Spec *)

\* no section group is configured: the page or the headers file could not be
\* read, or the file holds none of the three main headers
NoGroupConfigured == ~cfg.cursada /\ ~cfg.holidays /\ ~cfg.semanas

\* C9 as claimed: a run that fetched no page or found no section configuration
\* ends with status 1 and has printed nothing; status 0 is only for runs with
\* at least one configured group.
C9_ExitCodes ==
    pc = "done" =>
        /\ NoGroupConfigured => (exitCode = 1 /\ out = <<>>)
        /\ exitCode = 0 => ~NoGroupConfigured

\* the lines of an org outline: a heading or title (stars, then a space), a
\* date stamp, the body line of a holiday entry, or a blank line
RECURSIVE IsStarred(_)
IsStarred(t) ==
    /\ Len(t) >= 2
    /\ Ch(t, 1) = "*"
    /\ (Ch(t, 2) = " " \/ IsStarred(SubSeq(t, 2, Len(t))))

IsOutlineLine(t) ==
    \/ t = ""
    \/ IsStarred(t)
    \/ StartsWith(t, "<")
    \/ StartsWith(t, "Condicion: ")

\* C11 as claimed: every line on the standard output is a line of the outline;
\* the messages for the reader (no date found, science week not found) are
\* never there.
C11_StdoutIsOutlineOnly ==
    \A i \in 1..Len(out) : IsOutlineLine(out[i])

----------------------------------------------------------------------------
(* Properties of create_org_contents_from_holidays_header, checked under Spec *)

\* the date cell of the row splits into exactly two pieces around "de"
DateCellSplits(cells) == Len(Split(cells[2], "de")) = 2

\* the step is the loop body on a row with cells whose date cell does not split
MalformedRowStep(cells) == HolidayRow(cells) /\ Len(cells) > 0 /\ ~DateCellSplits(cells)

\* the heading shows the day number and month name the previous rows left
ShowsCarriedDate(heading) ==
    /\ hol.day_number # Unbound
    /\ Contains(heading, " " \o hol.day_number \o " de " \o hol.month_name \o ")")

\* C12 as claimed: a row whose date cell does not split into (day number,
\* month name) does not stop the run, first row or not; its entry is emitted
\* with the stamp "Fecha invalida" and its heading shows no day number or month
\* name of an earlier row.
C12_HolidayRowSelfContained ==
    [][\A cells \in HolidayRows :
         MalformedRowStep(cells) =>
            /\ pc' = "holiday_row"
            /\ Len(hol'.output_text) = Len(hol.output_text) + 3
            /\ hol'.output_text[Len(hol.output_text) + 2] = "<Fecha invalida>"
            /\ ~ShowsCarriedDate(hol'.output_text[Len(hol.output_text) + 1])]_vars

\* C12, the part about rows after the first: the entry of a malformed row shows
\* nothing of an earlier row.
C12_NoCarriedDate ==
    [][\A cells \in HolidayRows :
         MalformedRowStep(cells) /\ pc' = "holiday_row" =>
            ~ShowsCarriedDate(hol'.output_text[Len(hol.output_text) + 1])]_vars

============================================================================
